---------------------------- MODULE Spec2Model ----------------------------
(***************************************************************************)
(* A model of the Tango device class KeithleyDMM7510                       *)
(* (src/KeithleyDMM7510.py): the cached sense prefix, the attribute        *)
(* handlers, the commands, and the SCPI traffic each of them produces.     *)
(*                                                                         *)
(* A SCPI command is a sequence of text tokens whose concatenation is the  *)
(* string the code sends; the tokens are cut at the places where the code  *)
(* formats a value into the string (and around the trigger-block indices). *)
(* A floating-point value is an integer number of millionths, which is the *)
(* resolution of the code's '{:f}' formatting.                             *)
(*                                                                         *)
(* One action is one whole handler.  The record <<op, arg, sent, ret,      *)
(* raised>> is what the last handler did: its name, its argument, the      *)
(* commands it handed to the transport in order (the failing one last),    *)
(* its return value and the exception it raised; got holds the replies the *)
(* transport gave it.                                                      *)
(***************************************************************************)
EXTENDS Integers, Sequences, FiniteSets, TLC

VARIABLES
    DigitizerCounts,  \* device property DigitizerCounts
    phase,            \* "new" | "running" | "deleted": the device's lifecycle
    dmm,              \* self.dmm: "absent" | "open"
    devState,         \* the Tango state: "UNKNOWN" | "ON" | "OFF"
    sense_prefix,     \* self.__sense_prefix: "absent" | "" | "VOLT" | "CURR" | "DIG"
    last_value,       \* self.__last_value: <<>> (absent) or <<micro>>
    instFunc,         \* what the instrument answers to SENS:FUNC?
    instDigFunc,      \* what the instrument answers to SENS:DIG:FUNC?
    op, arg, sent, ret, raised,  \* the last handler's record
    got,              \* the replies the transport gave the last handler, in
                      \* order
    curMode,          \* history: <<>> or <<m>>, the mode resolved by the last
                      \* completed init_device or written by the last
                      \* successful write_measurement_type of this session
    lastSelected,     \* history: <<>> or <<m>>, the mode of the function the
                      \* instrument was last put in by a function-select
                      \* command of this session (before the first one: the
                      \* mode init_device found it in)
    written,          \* history: whether a write_measurement_type has
                      \* succeeded since the last init_device
    inflight          \* per caller: <<>> or <<m>>, a write_measurement_type
                      \* that has sent its command and not yet updated the
                      \* cache (only with unserialized callers)

deviceVars == <<DigitizerCounts, phase, dmm, devState, sense_prefix, last_value>>
instVars == <<instFunc, instDigFunc>>
opVars == <<op, arg, sent, ret, raised, got>>
histVars == <<curMode, lastSelected, written>>
vars == <<deviceVars, instVars, opVars, histVars, inflight>>

----------------------------------------------------------------------------
(* Bounds of the model. *)

\* values are -2.5 and the multiples 1..MaxUnits of 2.5 (in millionths)
MaxUnits == 1
\* the counts argument of trigger_external ranges over -1..MaxCounts
MaxCounts == 0
\* the callers of the device in the unserialized specification
NumCallers == 2

(* Program constants. *)
VoltDC == 0
VoltAC == 1
CurrDC == 2
CurrAC == 3
DigVolt == 4
DigCurr == 5
Unknown == -1
DefaultDigitizerCounts == 15
\* '{:f}' prints six decimals: values are counted in millionths
Micro == 1000000

Modes == {VoltDC, VoltAC, CurrDC, CurrAC, DigVolt, DigCurr}
Values == {k * 2500000 : k \in {-1} \cup 1..MaxUnits}
Counts == -1..MaxCounts
Callers == 1..NumCallers
DigitizerCountsChoices == {DefaultDigitizerCounts, 1}

----------------------------------------------------------------------------
(* Python values: None, int, float, bool and str, in one record shape. *)

Val(k, n, t) == [kind |-> k, num |-> n, text |-> t]
None == Val("None", 0, "")
PyInt(n) == Val("int", n, "")
PyFloat(n) == Val("float", n, "")
PyBool(b) == Val("bool", IF b THEN 1 ELSE 0, "")
PyStr(s) == Val("str", 0, s)

(* What a handler did. *)
Outcome(s, r, e) == [sent |-> s, ret |-> r, raised |-> e]

----------------------------------------------------------------------------
(* Formatting. *)

DigitChar(d) == <<"0", "1", "2", "3", "4", "5", "6", "7", "8", "9">>[d + 1]

RECURSIVE DecDigits(_)
DecDigits(n) ==
    IF n < 10 THEN <<DigitChar(n)>>
    ELSE DecDigits(n \div 10) \o <<DigitChar(n % 10)>>

RECURSIVE PadDigits(_, _)
PadDigits(n, w) ==
    IF w = 0 THEN <<>>
    ELSE PadDigits(n \div 10, w - 1) \o <<DigitChar(n % 10)>>

\* '{:d}'.format(n)
FormatD(n) == IF n < 0 THEN <<"-">> \o DecDigits(0 - n) ELSE DecDigits(n)

\* '{:f}'.format(v), v in millionths
FormatF(v) ==
    LET a == IF v < 0 THEN 0 - v ELSE v
    IN  (IF v < 0 THEN <<"-">> ELSE <<>>)
        \o DecDigits(a \div Micro) \o <<".">> \o PadDigits(a % Micro, 6)

\* int(value) of a bool
IntOfBool(b) == IF b THEN 1 ELSE 0

----------------------------------------------------------------------------
(* Replies of the instrument. *)

InstFuncs == {"VOLT:DC", "VOLT:AC", "CURR:DC", "CURR:AC", "NONE", "RES"}
InstDigFuncs == {"VOLT", "CURR", "NONE"}
\* one function is active, analog or digitizer, or (both NONE) none is
InstStates ==
    {st \in InstFuncs \X InstDigFuncs : st[1] = "NONE" \/ st[2] = "NONE"}

\* a function name as the instrument sends it, in double quotes or bare
FuncReply(f, quoted) == IF quoted THEN <<"\"", f, "\"">> ELSE <<f>>

\* str.strip('"'): the quote characters at both ends are removed
RECURSIVE StripLeft(_)
StripLeft(r) ==
    IF r # <<>> /\ Head(r) = "\"" THEN StripLeft(Tail(r)) ELSE r
RECURSIVE StripRight(_)
StripRight(r) ==
    IF r # <<>> /\ r[Len(r)] = "\"" THEN StripRight(SubSeq(r, 1, Len(r) - 1))
    ELSE r
\* mutant: only the leading quote is removed
Strip_left_only(r) == StripLeft(r)
Strip(r) == StripRight(StripLeft(r))

\* a numeric reply: text that float()/int() parses to num, or text they reject
NumReplies == [ok : {TRUE}, num : Values] \cup {[ok |-> FALSE, num |-> 0]}
FlagReplies == [ok : {TRUE}, num : {0, 1}] \cup {[ok |-> FALSE, num |-> 0]}

\* what a query gets: <<FALSE, reply>>, or <<TRUE, _>> when the transport fails
Answers(replies) ==
    {<<FALSE, r>> : r \in replies} \cup {<<TRUE, [ok |-> FALSE, num |-> 0]>>}

\* replies to :TRIG:STAT?, as the fields between the ';'
StatusReplies == {<<"IDLE", "IDLE", "0">>, <<"RUNNING", "RUNNING", "3">>, <<"EMPTY">>}

\* a reply as the transport returns it: its text, or for a numeric reply
\* whether float()/int() accepts it and the number they make of it
TextReply(t) == [ok |-> TRUE, num |-> 0, text |-> t]
NumReply(r) == [ok |-> r.ok, num |-> r.num, text |-> <<>>]
\* the identity string (logged, never parsed)
IdnReply == TextReply(<<"KEITHLEY INSTRUMENTS,MODEL DMM7510">>)


----------------------------------------------------------------------------
(* The SCPI commands, as the code writes them. *)

CmdIdn == <<"*IDN?">>
CmdFuncQuery == <<"SENS:FUNC?">>
CmdDigFuncQuery == <<"SENS:DIG:FUNC?">>

\* mutant: the digitizer modes are selected with the analog command
FuncSelect_analog_only(value) ==
    IF value = 0 THEN <<":SENS:FUNC \"", "VOLT:DC", "\"">>
    ELSE IF value = 1 THEN <<":SENS:FUNC \"", "VOLT:AC", "\"">>
    ELSE IF value = 2 THEN <<":SENS:FUNC \"", "CURR:DC", "\"">>
    ELSE IF value = 3 THEN <<":SENS:FUNC \"", "CURR:AC", "\"">>
    ELSE IF value = 4 THEN <<":SENS:FUNC \"", "VOLT", "\"">>
    ELSE <<":SENS:FUNC \"", "CURR", "\"">>

\* the function-select command of write_measurement_type(value)
FuncSelect(value) ==
    IF value = 0 THEN <<":SENS:FUNC \"", "VOLT:DC", "\"">>
    ELSE IF value = 1 THEN <<":SENS:FUNC \"", "VOLT:AC", "\"">>
    ELSE IF value = 2 THEN <<":SENS:FUNC \"", "CURR:DC", "\"">>
    ELSE IF value = 3 THEN <<":SENS:FUNC \"", "CURR:AC", "\"">>
    ELSE IF value = 4 THEN <<":SENS:DIG:FUNC \"", "VOLT", "\"">>
    ELSE <<":SENS:DIG:FUNC \"", "CURR", "\"">>

CmdRangeQuery(prefix) == <<"SENS:", prefix, ":RANG?">>
CmdRange(prefix, value) == <<"SENS:", prefix, ":RANG ">> \o FormatF(value)
CmdAutoRangeQuery(prefix) == <<"SENS:", prefix, ":RANG:AUTO?">>
CmdAutoRange(prefix, value) ==
    <<"SENS:", prefix, ":RANG:AUTO ">> \o FormatD(IntOfBool(value))

CmdTrigStat == <<":TRIG:STAT?">>
CmdFetch == <<":FETC?">>
CmdStatsAverage == <<":TRAC:STAT:AVER?">>
CmdStatsPeak2Peak == <<":TRAC:STAT:PK2P?">>
CmdStatsStd == <<":TRAC:STAT:STDD?">>
CmdStatsSpan == <<":TRAC:ACT?">>
CmdStatsMin == <<":TRAC:STAT:MIN?">>
CmdStatsMax == <<":TRAC:STAT:MAX?">>
CmdAbort == <<":TRIG:ABOR">>
CmdClearStats == <<":TRAC:STAT:CLE">>
CmdClearTrace == <<":TRAC:CLE">>
CmdRead == <<":READ?">>
CmdInit == <<"INIT">>
CmdContinuous == <<"TRIG:CONT REST">>

CmdDurationLoop(duration) ==
    <<"TRIG:LOAD \"DurationLoop\", ">> \o FormatF(duration) \o <<", 0">>

\* mutant: the two numbers are put in each other's block
ExternalProgram_swapped(digitizerCounts, counts) ==
    << <<":TRIG:LOAD \"EMPTY\"">>,
       <<":TRIG:BLOC:BUFF:CLEAR ", "1">>,
       <<":TRIGger:BLOCk:WAIT ", "2", ", EXT, ENT">>,
       <<":TRIG:EXT:IN:EDGE RIS">>,
       <<":TRIG:BLOC:DEL:CONS ", "3", ", 0">>,
       <<":TRIG:BLOC:DIGITIZE ", "4", ", \"defbuffer1\", ">>
           \o FormatD(counts),
       <<":TRIG:BLOC:BRAN:COUN ", "5", ", ">> \o FormatD(digitizerCounts)
           \o <<", ", "2">> >>

\* the writes of trigger_external, in the order of the code
ExternalProgram(digitizerCounts, counts) ==
    << <<":TRIG:LOAD \"EMPTY\"">>,
       <<":TRIG:BLOC:BUFF:CLEAR ", "1">>,
       <<":TRIGger:BLOCk:WAIT ", "2", ", EXT, ENT">>,
       <<":TRIG:EXT:IN:EDGE RIS">>,
       <<":TRIG:BLOC:DEL:CONS ", "3", ", 0">>,
       <<":TRIG:BLOC:DIGITIZE ", "4", ", \"defbuffer1\", ">>
           \o FormatD(digitizerCounts),
       <<":TRIG:BLOC:BRAN:COUN ", "5", ", ">> \o FormatD(counts) \o <<", ", "2">> >>

----------------------------------------------------------------------------
(* The mode resolver. *)

\* mutant: CurrAC falls in the VOLT branch
set_sense_prefix_currac_volt(value) ==
    IF value = 0 THEN "VOLT"
    ELSE IF value = 1 THEN "VOLT"
    ELSE IF value = 2 THEN "CURR"
    ELSE IF value = 3 THEN "VOLT"
    ELSE "DIG"

\* __set_sense_prefix(value): the prefix the cache is set to
set_sense_prefix(value) ==
    IF value = 0 THEN "VOLT"
    ELSE IF value = 1 THEN "VOLT"
    ELSE IF value = 2 THEN "CURR"
    ELSE IF value = 3 THEN "CURR"
    ELSE "DIG"

\* whether read_measurement_type sends its second query after reply p
NeedsDigQuery(p) == Strip(p) = <<"NONE">>

\* mutant: the two digitizer functions are taken for each other
ModeOfReplies_digi_swapped(p, s) ==
    LET meas_type == Strip(p)
        digi_type == Strip(s)
    IN  IF meas_type = <<"VOLT:DC">> THEN 0
        ELSE IF meas_type = <<"VOLT:AC">> THEN 1
        ELSE IF meas_type = <<"CURR:DC">> THEN 2
        ELSE IF meas_type = <<"CURR:AC">> THEN 3
        ELSE IF meas_type = <<"NONE">> THEN
            IF digi_type = <<"VOLT">> THEN 5
            ELSE IF digi_type = <<"CURR">> THEN 4
            ELSE -1
        ELSE -1

\* the value read_measurement_type returns for the replies p (to SENS:FUNC?)
\* and s (to SENS:DIG:FUNC?, read only when the first is NONE)
ModeOfReplies(p, s) ==
    LET meas_type == Strip(p)
        digi_type == Strip(s)
    IN  IF meas_type = <<"VOLT:DC">> THEN 0
        ELSE IF meas_type = <<"VOLT:AC">> THEN 1
        ELSE IF meas_type = <<"CURR:DC">> THEN 2
        ELSE IF meas_type = <<"CURR:AC">> THEN 3
        ELSE IF meas_type = <<"NONE">> THEN
            IF digi_type = <<"VOLT">> THEN 4
            ELSE IF digi_type = <<"CURR">> THEN 5
            ELSE -1
        ELSE -1

\* read_measurement_type() on an open transport: p and s are the replies
\* the instrument gives, fail = k > 0 makes the k-th query fail
ResolveMode(p, s, fail) ==
    IF fail = 1 THEN Outcome(<<CmdFuncQuery>>, None, "VisaIOError")
    ELSE IF ~NeedsDigQuery(p)
        THEN Outcome(<<CmdFuncQuery>>, PyInt(ModeOfReplies(p, s)), "none")
    ELSE IF fail = 2
        THEN Outcome(<<CmdFuncQuery, CmdDigFuncQuery>>, None, "VisaIOError")
    ELSE Outcome(<<CmdFuncQuery, CmdDigFuncQuery>>,
                 PyInt(ModeOfReplies(p, s)), "none")

\* read_measurement_type() as a handler: self.dmm may not exist
read_measurement_type_call(p, s, fail) ==
    IF dmm = "absent" THEN Outcome(<<>>, None, "AttributeError")
    ELSE ResolveMode(p, s, fail)

----------------------------------------------------------------------------
(* Single-command handlers. *)

\* self.dmm.write(cmd)
WriteCall(cmd, fail) ==
    IF dmm = "absent" THEN Outcome(<<>>, None, "AttributeError")
    ELSE IF fail THEN Outcome(<<cmd>>, None, "VisaIOError")
    ELSE Outcome(<<cmd>>, None, "none")

\* float(self.dmm.query(cmd))
QueryFloat(cmd, fail, reply) ==
    IF dmm = "absent" THEN Outcome(<<>>, None, "AttributeError")
    ELSE IF fail THEN Outcome(<<cmd>>, None, "VisaIOError")
    ELSE IF ~reply.ok THEN Outcome(<<cmd>>, None, "ValueError")
    ELSE Outcome(<<cmd>>, PyFloat(reply.num), "none")

\* int(self.dmm.query(cmd))
QueryInt(cmd, fail, reply) ==
    IF dmm = "absent" THEN Outcome(<<>>, None, "AttributeError")
    ELSE IF fail THEN Outcome(<<cmd>>, None, "VisaIOError")
    ELSE IF ~reply.ok THEN Outcome(<<cmd>>, None, "ValueError")
    ELSE Outcome(<<cmd>>, PyInt(reply.num), "none")

\* self.dmm.query(cmd).split(';')[0]
QueryFirstField(cmd, fail, reply) ==
    IF dmm = "absent" THEN Outcome(<<>>, None, "AttributeError")
    ELSE IF fail THEN Outcome(<<cmd>>, None, "VisaIOError")
    ELSE Outcome(<<cmd>>, PyStr(Head(reply)), "none")

\* of the replies rs the instrument would give to a handler's queries, the
\* ones the handler with outcome o received: a query that failed at the
\* transport brought none
Received(o, rs) ==
    SubSeq(rs, 1, IF o.raised = "VisaIOError" THEN Len(o.sent) - 1
                  ELSE Len(o.sent))

\* the record of a handler that received the replies g
RecordGot(name, a, o, g) ==
    /\ op' = name
    /\ arg' = a
    /\ sent' = o.sent
    /\ ret' = o.ret
    /\ raised' = o.raised
    /\ got' = g

\* the record of a handler that only writes
Record(name, a, o) == RecordGot(name, a, o, <<>>)

\* a handler may be invoked once init_device has run
Running == phase = "running"

----------------------------------------------------------------------------
(* The instrument. *)

\* the instrument applies a function-select command: an analog select
\* leaves the digitizer off, a digitizer select leaves analog sensing off
InstApply(value) ==
    /\ instFunc' = IF value \in {4, 5} THEN "NONE" ELSE FuncSelect(value)[2]
    /\ instDigFunc' = IF value \in {4, 5} THEN FuncSelect(value)[2] ELSE "NONE"

\* the functions another actor switches the instrument to: an analog one, a
\* digitizer one, and one the device does not know
OtherActorTargets ==
    {<<"CURR:DC", "NONE">>, <<"NONE", "VOLT">>, <<"RES", "NONE">>}

\* someone else (the front panel, another client of the instrument) sets
\* the instrument's function
OtherActor ==
    /\ \E st \in OtherActorTargets :
          /\ st # <<instFunc, instDigFunc>>
          /\ instFunc' = st[1]
          /\ instDigFunc' = st[2]
    /\ UNCHANGED <<deviceVars, opVars, histVars, inflight>>

----------------------------------------------------------------------------
(* Lifecycle. *)

Init ==
    /\ DigitizerCounts \in DigitizerCountsChoices
    /\ phase = "new"
    /\ dmm = "absent"
    /\ devState = "UNKNOWN"
    /\ sense_prefix = "absent"
    /\ last_value = <<>>
    /\ \E st \in InstStates : instFunc = st[1] /\ instDigFunc = st[2]
    /\ op = "none"
    /\ arg = None
    /\ sent = <<>>
    /\ ret = None
    /\ raised = "none"
    /\ got = <<>>
    /\ curMode = <<>>
    /\ lastSelected = <<>>
    /\ written = FALSE
    /\ inflight = [c \in Callers |-> <<>>]

\* init_device(): openOk is whether the resource opens, idnOk whether the
\* *IDN? query is answered; q1, q2, fail are read_measurement_type's
init_device_step(openOk, idnOk, q1, q2, fail) ==
    LET connected == openOk /\ idnOk
        p == FuncReply(instFunc, q1)
        s == FuncReply(instDigFunc, q2)
        r == IF openOk THEN ResolveMode(p, s, fail)
             ELSE Outcome(<<>>, None, "AttributeError")
    IN  /\ phase \in {"new", "deleted"}
        /\ phase' = "running"
        /\ dmm' = IF openOk THEN "open" ELSE dmm
        /\ devState' = IF connected THEN "ON" ELSE "OFF"
        /\ sense_prefix' = IF r.raised = "none"
                           THEN set_sense_prefix(r.ret.num) ELSE ""
        /\ curMode' = IF r.raised = "none" THEN <<r.ret.num>> ELSE <<>>
        /\ lastSelected' = curMode'
        /\ written' = FALSE
        /\ RecordGot("init_device", None,
                     Outcome((IF openOk THEN <<CmdIdn>> ELSE <<>>) \o r.sent,
                             None, r.raised),
                     (IF connected THEN <<IdnReply>> ELSE <<>>)
                         \o Received(r, <<TextReply(p), TextReply(s)>>))
        /\ UNCHANGED <<DigitizerCounts, last_value, instVars, inflight>>

init_device ==
    \E openOk \in BOOLEAN, idnOk \in BOOLEAN, q1 \in BOOLEAN, q2 \in BOOLEAN,
       fail \in 0..2 :
        init_device_step(openOk, idnOk, q1, q2, fail)

\* delete_device(): a caller's unfinished write ends with the device
delete_device ==
    /\ Running
    /\ \A c \in Callers : inflight[c] = <<>>
    /\ phase' = "deleted"
    /\ devState' = "OFF"
    /\ dmm' = "absent"
    /\ curMode' = <<>>
    /\ lastSelected' = <<>>
    /\ written' = FALSE
    /\ Record("delete_device", None,
              Outcome(<<>>, None,
                      IF dmm = "absent" THEN "AttributeError" ELSE "none"))
    /\ UNCHANGED <<DigitizerCounts, sense_prefix, last_value, instVars, inflight>>

----------------------------------------------------------------------------
(* The measurement_type attribute. *)

\* mutant: the read passes the resolved mode to __set_sense_prefix
read_measurement_type_sets_prefix ==
    /\ Running
    /\ \E q1 \in BOOLEAN, q2 \in BOOLEAN, fail \in 0..2 :
          LET p == FuncReply(instFunc, q1)
              s == FuncReply(instDigFunc, q2)
              o == read_measurement_type_call(p, s, fail)
          IN  /\ RecordGot("read_measurement_type", None, o,
                           Received(o, <<TextReply(p), TextReply(s)>>))
              /\ sense_prefix' = IF o.raised = "none"
                                 THEN set_sense_prefix(o.ret.num)
                                 ELSE sense_prefix
    /\ UNCHANGED <<DigitizerCounts, phase, dmm, devState, last_value,
                   instVars, histVars, inflight>>

read_measurement_type ==
    /\ Running
    /\ \E q1 \in BOOLEAN, q2 \in BOOLEAN, fail \in 0..2 :
          LET p == FuncReply(instFunc, q1)
              s == FuncReply(instDigFunc, q2)
              o == read_measurement_type_call(p, s, fail)
          IN  RecordGot("read_measurement_type", None, o,
                        Received(o, <<TextReply(p), TextReply(s)>>))
    /\ UNCHANGED <<deviceVars, instVars, histVars, inflight>>

\* the transport part of write_measurement_type(value)
write_measurement_type_call(value, fail) == WriteCall(FuncSelect(value), fail)

\* mutant: the cache is updated whether or not the write succeeded
PrefixAfterWrite_regardless(value, o) == set_sense_prefix(value)

\* the cached prefix after write_measurement_type(value) with outcome o
PrefixAfterWrite(value, o) ==
    IF o.raised = "none" THEN set_sense_prefix(value) ELSE sense_prefix

write_measurement_type_step(value, fail) ==
    LET o == write_measurement_type_call(value, fail)
    IN  /\ Running
        /\ Record("write_measurement_type", PyInt(value), o)
        /\ sense_prefix' = PrefixAfterWrite(value, o)
        /\ IF o.raised = "none"
           THEN /\ InstApply(value)
                /\ curMode' = <<value>>
                /\ lastSelected' = <<value>>
                /\ written' = TRUE
           ELSE UNCHANGED <<instVars, histVars>>
        /\ UNCHANGED <<DigitizerCounts, phase, dmm, devState, last_value, inflight>>

write_measurement_type ==
    \E value \in Modes, fail \in BOOLEAN : write_measurement_type_step(value, fail)

----------------------------------------------------------------------------
(* The range and auto_range attributes. *)

read_range_call(fail, reply) ==
    IF sense_prefix = "DIG" THEN Outcome(<<>>, PyInt(-1), "none")
    ELSE QueryFloat(CmdRangeQuery(sense_prefix), fail, reply)

write_range_call(value, fail) ==
    IF sense_prefix = "DIG" THEN Outcome(<<>>, None, "none")
    ELSE WriteCall(CmdRange(sense_prefix, value), fail)

read_auto_range_call(fail, reply) ==
    IF sense_prefix = "DIG" THEN Outcome(<<>>, None, "none")
    ELSE QueryInt(CmdAutoRangeQuery(sense_prefix), fail, reply)

\* mutant: the DIG gate is missing
write_auto_range_call_ungated(value, fail) ==
    WriteCall(CmdAutoRange(sense_prefix, value), fail)

write_auto_range_call(value, fail) ==
    IF sense_prefix = "DIG" THEN Outcome(<<>>, None, "none")
    ELSE WriteCall(CmdAutoRange(sense_prefix, value), fail)

\* what a handler that only talks to the instrument leaves alone
Untouched == UNCHANGED <<deviceVars, instVars, histVars, inflight>>

\* mutant: a range read that cannot be parsed resets the cached prefix
read_range_resets_prefix ==
    /\ Running
    /\ \E a \in Answers(NumReplies) :
          LET o == read_range_call(a[1], a[2])
          IN  /\ RecordGot("read_range", None, o, Received(o, <<NumReply(a[2])>>))
              /\ sense_prefix' = IF o.raised = "ValueError" THEN "DIG"
                                 ELSE sense_prefix
    /\ UNCHANGED <<DigitizerCounts, phase, dmm, devState, last_value,
                   instVars, histVars, inflight>>

read_range ==
    /\ Running
    /\ \E a \in Answers(NumReplies) :
          LET o == read_range_call(a[1], a[2])
          IN  RecordGot("read_range", None, o, Received(o, <<NumReply(a[2])>>))
    /\ Untouched

write_range ==
    /\ Running
    /\ \E value \in Values, fail \in BOOLEAN :
          Record("write_range", PyFloat(value), write_range_call(value, fail))
    /\ Untouched

read_auto_range ==
    /\ Running
    /\ \E a \in Answers(FlagReplies) :
          LET o == read_auto_range_call(a[1], a[2])
          IN  RecordGot("read_auto_range", None, o,
                        Received(o, <<NumReply(a[2])>>))
    /\ Untouched

write_auto_range ==
    /\ Running
    /\ \E value \in BOOLEAN, fail \in BOOLEAN :
          Record("write_auto_range", PyBool(value),
                 write_auto_range_call(value, fail))
    /\ Untouched

----------------------------------------------------------------------------
(* The read-only attributes. *)

read_trigger_status_call(fail, reply) == QueryFirstField(CmdTrigStat, fail, reply)
\* mutant: the reading stored by read() is returned when there is one
read_last_value_call_stored(fail, reply) ==
    IF dmm # "absent" /\ last_value # <<>>
    THEN Outcome(<<>>, PyFloat(last_value[1]), "none")
    ELSE QueryFloat(CmdFetch, fail, reply)

read_last_value_call(fail, reply) == QueryFloat(CmdFetch, fail, reply)
read_stats_average_call(fail, reply) == QueryFloat(CmdStatsAverage, fail, reply)
read_stats_peak2peak_call(fail, reply) == QueryFloat(CmdStatsPeak2Peak, fail, reply)
read_stats_std_call(fail, reply) == QueryFloat(CmdStatsStd, fail, reply)
read_stats_span_call(fail, reply) == QueryFloat(CmdStatsSpan, fail, reply)
read_stats_min_call(fail, reply) == QueryFloat(CmdStatsMin, fail, reply)
read_stats_max_call(fail, reply) == QueryFloat(CmdStatsMax, fail, reply)

read_trigger_status ==
    /\ Running
    /\ \E fail \in BOOLEAN, reply \in StatusReplies :
          LET o == read_trigger_status_call(fail, reply)
          IN  RecordGot("read_trigger_status", None, o,
                        Received(o, <<TextReply(reply)>>))
    /\ Untouched

read_last_value ==
    /\ Running
    /\ \E a \in Answers(NumReplies) :
          LET o == read_last_value_call(a[1], a[2])
          IN  RecordGot("read_last_value", None, o, Received(o, <<NumReply(a[2])>>))
    /\ Untouched

read_stats_average ==
    /\ Running
    /\ \E a \in Answers(NumReplies) :
          LET o == read_stats_average_call(a[1], a[2])
          IN  RecordGot("read_stats_average", None, o, Received(o, <<NumReply(a[2])>>))
    /\ Untouched

read_stats_peak2peak ==
    /\ Running
    /\ \E a \in Answers(NumReplies) :
          LET o == read_stats_peak2peak_call(a[1], a[2])
          IN  RecordGot("read_stats_peak2peak", None, o,
                        Received(o, <<NumReply(a[2])>>))
    /\ Untouched

read_stats_std ==
    /\ Running
    /\ \E a \in Answers(NumReplies) :
          LET o == read_stats_std_call(a[1], a[2])
          IN  RecordGot("read_stats_std", None, o, Received(o, <<NumReply(a[2])>>))
    /\ Untouched

read_stats_span ==
    /\ Running
    /\ \E a \in Answers(NumReplies) :
          LET o == read_stats_span_call(a[1], a[2])
          IN  RecordGot("read_stats_span", None, o, Received(o, <<NumReply(a[2])>>))
    /\ Untouched

read_stats_min ==
    /\ Running
    /\ \E a \in Answers(NumReplies) :
          LET o == read_stats_min_call(a[1], a[2])
          IN  RecordGot("read_stats_min", None, o, Received(o, <<NumReply(a[2])>>))
    /\ Untouched

read_stats_max ==
    /\ Running
    /\ \E a \in Answers(NumReplies) :
          LET o == read_stats_max_call(a[1], a[2])
          IN  RecordGot("read_stats_max", None, o, Received(o, <<NumReply(a[2])>>))
    /\ Untouched

----------------------------------------------------------------------------
(* The commands. *)

trigger_abort_call(fail) == WriteCall(CmdAbort, fail)
clear_stats_call(fail) == WriteCall(CmdClearStats, fail)
clear_trace_call(fail) == WriteCall(CmdClearTrace, fail)
trigger_init_call(fail) == WriteCall(CmdInit, fail)
continuous_call(fail) == WriteCall(CmdContinuous, fail)
\* mutant: the load is followed by INIT
trigger_duration_loop_call_and_init(duration, fail) ==
    IF dmm = "absent" THEN Outcome(<<>>, None, "AttributeError")
    ELSE IF fail THEN Outcome(<<CmdDurationLoop(duration)>>, None, "VisaIOError")
    ELSE Outcome(<<CmdDurationLoop(duration), CmdInit>>, None, "none")

trigger_duration_loop_call(duration, fail) ==
    WriteCall(CmdDurationLoop(duration), fail)

\* read(): the reading is stored, nothing is returned
read_call(fail, reply) ==
    LET o == QueryFloat(CmdRead, fail, reply)
    IN  Outcome(o.sent, None, o.raised)

\* trigger_external(counts): fail = k > 0 makes the k-th write fail
trigger_external_call(counts, fail) ==
    LET program == ExternalProgram(DigitizerCounts, counts)
    IN  IF dmm = "absent" THEN Outcome(<<>>, None, "AttributeError")
        ELSE IF fail = 0 THEN Outcome(program, None, "none")
        ELSE Outcome(SubSeq(program, 1, fail), None, "VisaIOError")

trigger_abort ==
    /\ Running
    /\ \E fail \in BOOLEAN : Record("trigger_abort", None, trigger_abort_call(fail))
    /\ Untouched

clear_stats ==
    /\ Running
    /\ \E fail \in BOOLEAN : Record("clear_stats", None, clear_stats_call(fail))
    /\ Untouched

clear_trace ==
    /\ Running
    /\ \E fail \in BOOLEAN : Record("clear_trace", None, clear_trace_call(fail))
    /\ Untouched

read ==
    /\ Running
    /\ \E a \in Answers(NumReplies) :
          LET o == read_call(a[1], a[2])
          IN  /\ RecordGot("read", None, o, Received(o, <<NumReply(a[2])>>))
              /\ last_value' = IF o.raised = "none" THEN <<a[2].num>>
                               ELSE last_value
    /\ UNCHANGED <<DigitizerCounts, phase, dmm, devState, sense_prefix,
                   instVars, histVars, inflight>>

trigger_duration_loop ==
    /\ Running
    /\ \E duration \in Values, fail \in BOOLEAN :
          Record("trigger_duration_loop", PyFloat(duration),
                 trigger_duration_loop_call(duration, fail))
    /\ Untouched

trigger_external ==
    /\ Running
    /\ \E counts \in Counts, fail \in 0..7 :
          Record("trigger_external", PyInt(counts),
                 trigger_external_call(counts, fail))
    /\ Untouched

trigger_init ==
    /\ Running
    /\ \E fail \in BOOLEAN : Record("trigger_init", None, trigger_init_call(fail))
    /\ Untouched

continuous ==
    /\ Running
    /\ \E fail \in BOOLEAN : Record("continuous", None, continuous_call(fail))
    /\ Untouched

----------------------------------------------------------------------------
(* The device with its callers serialized: one handler at a time. *)

Handler ==
    \/ read_measurement_type
    \/ write_measurement_type
    \/ read_range
    \/ write_range
    \/ read_auto_range
    \/ write_auto_range
    \/ read_trigger_status
    \/ read_last_value
    \/ read_stats_average
    \/ read_stats_peak2peak
    \/ read_stats_std
    \/ read_stats_span
    \/ read_stats_min
    \/ read_stats_max
    \/ trigger_abort
    \/ clear_stats
    \/ clear_trace
    \/ read
    \/ trigger_duration_loop
    \/ trigger_external
    \/ trigger_init
    \/ continuous

\* the device is the instrument's only controller
Next ==
    \/ init_device
    \/ delete_device
    \/ Handler

Spec == Init /\ [][Next]_vars

\* the instrument is shared: its function may change behind the device's back
NextShared ==
    \/ Next
    \/ OtherActor

SpecShared == Init /\ [][NextShared]_vars

----------------------------------------------------------------------------
(* Unserialized callers: write_measurement_type is two steps, its write to *)
(* the instrument and its update of the cache, and the class holds no lock *)
(* between them.                                                           *)

IdleCaller == \E c \in Callers : inflight[c] = <<>>

\* lines 162-173 for caller c: the function-select write
write_measurement_type_send(c, value, fail) ==
    LET o == write_measurement_type_call(value, fail)
    IN  /\ Running
        /\ inflight[c] = <<>>
        /\ Record("write_measurement_type", PyInt(value), o)
        /\ IF o.raised = "none"
           THEN /\ InstApply(value)
                /\ lastSelected' = <<value>>
                /\ inflight' = [inflight EXCEPT ![c] = <<value>>]
           ELSE UNCHANGED <<instVars, lastSelected, inflight>>
        /\ UNCHANGED <<deviceVars, curMode, written>>

\* line 175 for caller c: the cache update
write_measurement_type_cache(c) ==
    /\ inflight[c] # <<>>
    /\ sense_prefix' = set_sense_prefix(inflight[c][1])
    /\ curMode' = inflight[c]
    /\ written' = TRUE
    /\ inflight' = [inflight EXCEPT ![c] = <<>>]
    /\ UNCHANGED <<DigitizerCounts, phase, dmm, devState, last_value,
                   instVars, opVars, lastSelected>>

ConcSend ==
    \E c \in Callers, value \in Modes, fail \in BOOLEAN :
        write_measurement_type_send(c, value, fail)

ConcCache == \E c \in Callers : write_measurement_type_cache(c)

ConcRange ==
    /\ IdleCaller
    /\ \/ read_range
       \/ write_range
       \/ read_auto_range
       \/ write_auto_range

NextConc ==
    \/ init_device
    \/ ConcSend
    \/ ConcCache
    \/ ConcRange

SpecConc == Init /\ [][NextConc]_vars

----------------------------------------------------------------------------
(* Properties. *)

\* the table of the data model: mode -> sense prefix
TablePrefix(m) ==
    CASE m \in {VoltDC, VoltAC} -> "VOLT"
      [] m \in {CurrDC, CurrAC} -> "CURR"
      [] m \in {DigVolt, DigCurr} -> "DIG"
      [] m = Unknown -> "DIG"

RangeOps == {"read_range", "write_range", "read_auto_range", "write_auto_range"}

(* C1: once init_device has resolved a mode, or a write_measurement_type   *)
(* has succeeded, the cached sense prefix is the table value of the        *)
(* current mode (the one resolved at init or the last one written);        *)
(* Unknown maps to DIG.                                                    *)
C1_PrefixIsTableOfMode ==
    curMode # <<>> => sense_prefix = TablePrefix(curMode[1])

\* a second successful write, to CurrAC, after a session that began Unknown
C1_Witness ==
    /\ op = "write_measurement_type"
    /\ raised = "none"
    /\ curMode = <<CurrAC>>
    /\ sense_prefix = "CURR"

\* init_device resolved Unknown
C1_WitnessUnknown ==
    /\ op = "init_device"
    /\ raised = "none"
    /\ curMode = <<Unknown>>
    /\ sense_prefix = "DIG"

(* C2: with the cached prefix DIG, read_range, write_range,                *)
(* read_auto_range and write_auto_range send nothing, raise nothing and    *)
(* change no state; read_range returns -1 and the others return None.      *)
C2_Step ==
    (sense_prefix = "DIG" /\ op' \in RangeOps) =>
        /\ sent' = <<>>
        /\ raised' = "none"
        /\ ret' = IF op' = "read_range" THEN PyInt(-1) ELSE None
        /\ UNCHANGED <<deviceVars, instVars, histVars, inflight>>

C2_DigIsNoOp == [][C2_Step]_vars

C2_Witness ==
    /\ op = "write_auto_range"
    /\ sense_prefix = "DIG"
    /\ curMode = <<DigCurr>>
    /\ sent = <<>>
    /\ ret = None
    /\ raised = "none"

(* C3: a trigger_external(counts) that completes has sent exactly the      *)
(* seven writes of the external-trigger program in their order, with       *)
(* DigitizerCounts in block 4 and counts in block 5; the block indices are *)
(* 1, 2, 3, 4, 5 in this order and the branch goes to block 2.             *)
C3_Program ==
    << <<":TRIG:LOAD \"EMPTY\"">>,
       <<":TRIG:BLOC:BUFF:CLEAR ", "1">>,
       <<":TRIGger:BLOCk:WAIT ", "2", ", EXT, ENT">>,
       <<":TRIG:EXT:IN:EDGE RIS">>,
       <<":TRIG:BLOC:DEL:CONS ", "3", ", 0">>,
       <<":TRIG:BLOC:DIGITIZE ", "4", ", \"defbuffer1\", ">>
           \o FormatD(DigitizerCounts),
       <<":TRIG:BLOC:BRAN:COUN ", "5", ", ">> \o FormatD(arg.num)
           \o <<", ", "2">> >>

C3_ExternalProgram ==
    (op = "trigger_external" /\ raised = "none") =>
        /\ Len(sent) = 7
        /\ sent = C3_Program
        /\ <<sent[2][2], sent[3][2], sent[5][2], sent[6][2], sent[7][2]>>
              = <<"1", "2", "3", "4", "5">>
        /\ sent[7][Len(sent[7])] = "2"
        /\ DigitizerCounts = 15 =>
              SubSeq(sent[6], 4, Len(sent[6])) = <<"1", "5">>
        /\ arg.num = -1 =>
              SubSeq(sent[7], 4, Len(sent[7])) = <<"-", "1", ", ", "2">>

C3_Witness ==
    /\ op = "trigger_external"
    /\ raised = "none"
    /\ DigitizerCounts = 15
    /\ arg = PyInt(0)
    /\ Len(sent) = 7
    /\ sent[6] = <<":TRIG:BLOC:DIGITIZE ", "4", ", \"defbuffer1\", ", "1", "5">>
    /\ sent[7] = <<":TRIG:BLOC:BRAN:COUN ", "5", ", ", "0", ", ", "2">>

(* C4: every range or auto-range command that is sent carries the prefix  *)
(* of the mode last written (or, before any write, resolved at init), and  *)
(* it is the only command its handler sends.                               *)
C4_Expected(prefix) ==
    CASE op = "read_range" -> <<"SENS:", prefix, ":RANG?">>
      [] op = "write_range" -> <<"SENS:", prefix, ":RANG ">> \o FormatF(arg.num)
      [] op = "read_auto_range" -> <<"SENS:", prefix, ":RANG:AUTO?">>
      [] op = "write_auto_range" ->
            <<"SENS:", prefix, ":RANG:AUTO ", IF arg.num = 1 THEN "1" ELSE "0">>

C4_RangeCommandCarriesModePrefix ==
    (op \in RangeOps /\ sent # <<>>) =>
        /\ curMode # <<>>
        /\ sent = <<C4_Expected(TablePrefix(curMode[1]))>>

\* the same, in the sessions that have a mode: init_device resolved one or
\* a write_measurement_type succeeded
C4_WithModeResolved ==
    (op \in RangeOps /\ sent # <<>> /\ curMode # <<>>) =>
        sent = <<C4_Expected(TablePrefix(curMode[1]))>>

(* C5: write_measurement_type(mode) hands the transport exactly one        *)
(* command, the function-select command of mode, and no query; when it     *)
(* returns, the cached prefix is the table value of mode.                  *)
C5_Select(m) ==
    CASE m = VoltDC -> <<":SENS:FUNC \"", "VOLT:DC", "\"">>
      [] m = VoltAC -> <<":SENS:FUNC \"", "VOLT:AC", "\"">>
      [] m = CurrDC -> <<":SENS:FUNC \"", "CURR:DC", "\"">>
      [] m = CurrAC -> <<":SENS:FUNC \"", "CURR:AC", "\"">>
      [] m = DigVolt -> <<":SENS:DIG:FUNC \"", "VOLT", "\"">>
      [] m = DigCurr -> <<":SENS:DIG:FUNC \"", "CURR", "\"">>

C5_WriteModeSendsSelect ==
    op = "write_measurement_type" =>
        /\ raised # "AttributeError" => sent = <<C5_Select(arg.num)>>
        /\ raised = "none" => sense_prefix = TablePrefix(arg.num)

C5_Witness ==
    /\ op = "write_measurement_type"
    /\ raised = "none"
    /\ arg = PyInt(DigVolt)
    /\ sent = << <<":SENS:DIG:FUNC \"", "VOLT", "\"">> >>
    /\ sense_prefix = "DIG"

(* C6: only init_device and write_measurement_type change the cached       *)
(* prefix; every other handler leaves it as it was, whether it succeeds or *)
(* fails.                                                                  *)
C6_Step ==
    op' \notin {"init_device", "write_measurement_type"} =>
        sense_prefix' = sense_prefix

C6_PrefixFrame == [][C6_Step]_vars

\* a statistics read that failed at the transport, the prefix still CURR
C6_Witness ==
    /\ op = "read_stats_average"
    /\ raised = "VisaIOError"
    /\ curMode = <<CurrDC>>
    /\ sense_prefix = "CURR"

(* C7: trigger_duration_loop(duration) sends exactly one write,            *)
(* TRIG:LOAD "DurationLoop", <duration to six decimals>, 0; INIT is sent   *)
(* by trigger_init and by no other handler.                                *)
C7_DurationLoop ==
    /\ (op = "trigger_duration_loop" /\ raised # "AttributeError") =>
          /\ Len(sent) = 1
          /\ sent[1] = <<"TRIG:LOAD \"DurationLoop\", ">> \o FormatF(arg.num)
                          \o <<", 0">>
          /\ sent[1][Len(sent[1])] = ", 0"
          /\ arg.num = 2500000 =>
                sent[1] = <<"TRIG:LOAD \"DurationLoop\", ",
                            "2", ".", "5", "0", "0", "0", "0", "0", ", 0">>
    /\ \A i \in 1..Len(sent) : sent[i] = <<"INIT">> => op = "trigger_init"

C7_Witness ==
    /\ op = "trigger_duration_loop"
    /\ raised = "none"
    /\ arg = PyFloat(2500000)
    /\ sent = << <<"TRIG:LOAD \"DurationLoop\", ",
                   "2", ".", "5", "0", "0", "0", "0", "0", ", 0">> >>

(* C8: read_measurement_type queries SENS:FUNC? first, queries             *)
(* SENS:DIG:FUNC? exactly when the first reply, its quotes stripped, is    *)
(* NONE, and returns the mode of the replies: 0..3 for the analog          *)
(* functions, 4 or 5 for the digitizer's VOLT or CURR, -1 for anything     *)
(* else, without raising.                                                  *)
C8_ModeOfInstrument ==
    CASE instFunc = "VOLT:DC" -> VoltDC
      [] instFunc = "VOLT:AC" -> VoltAC
      [] instFunc = "CURR:DC" -> CurrDC
      [] instFunc = "CURR:AC" -> CurrAC
      [] instFunc = "NONE" /\ instDigFunc = "VOLT" -> DigVolt
      [] instFunc = "NONE" /\ instDigFunc = "CURR" -> DigCurr
      [] OTHER -> Unknown

C8_ReadModeResolves ==
    (op = "read_measurement_type" /\ raised # "AttributeError") =>
        /\ Len(sent) \in {1, 2}
        /\ sent[1] = <<"SENS:FUNC?">>
        /\ Len(sent) = 2 => (instFunc = "NONE" /\ sent[2] = <<"SENS:DIG:FUNC?">>)
        /\ raised = "none" =>
              /\ instFunc = "NONE" => Len(sent) = 2
              /\ ret = PyInt(C8_ModeOfInstrument)
        /\ raised \in {"none", "VisaIOError"}

C8_Witness ==
    /\ op = "read_measurement_type"
    /\ raised = "none"
    /\ instFunc = "NONE"
    /\ instDigFunc = "CURR"
    /\ sent = << <<"SENS:FUNC?">>, <<"SENS:DIG:FUNC?">> >>
    /\ ret = PyInt(DigCurr)

\* an unrecognized reply gives Unknown, no error
C8_WitnessUnknown ==
    /\ op = "read_measurement_type"
    /\ raised = "none"
    /\ instFunc = "RES"
    /\ ret = PyInt(Unknown)

C10_ReadUpdatesPrefix ==
    (op = "read_measurement_type" /\ raised = "none" /\ curMode # <<>>) =>
        sense_prefix = TablePrefix(ret.num)

(* C10, amended: the resolution inside init_device sets the cached prefix  *)
(* to the table value of the mode the instrument reports; a read of        *)
(* measurement_type returns the mode and leaves the cached prefix as it    *)
(* was.                                                                    *)
C10_Step ==
    /\ op' = "read_measurement_type" => sense_prefix' = sense_prefix
    /\ (phase # "running" /\ op' = "init_device" /\ raised' = "none") =>
          sense_prefix' = TablePrefix(C8_ModeOfInstrument')

C10_PrefixSetAtInitNotAtRead == [][C10_Step]_vars

\* the instrument was switched to CURR:DC behind the device's back; the
\* read reports CurrDC and the cache still says VOLT
C10_Witness ==
    /\ op = "read_measurement_type"
    /\ raised = "none"
    /\ ret = PyInt(CurrDC)
    /\ curMode = <<VoltDC>>
    /\ sense_prefix = "VOLT"

(* C11: a connection failure leaves the device state other than ON -- when *)
(* init_device cannot open the resource or gets no answer to *IDN?, and    *)
(* when the transport fails in a later handler -- and the state is ON only *)
(* while there is a transport.                                             *)
C11_ConnectionFailureLeavesNotOn ==
    /\ (op = "init_device" /\ (got = <<>> \/ got[1] # IdnReply)) =>
          devState # "ON"
    /\ (op # "init_device" /\ raised = "VisaIOError") => devState # "ON"
    /\ devState = "ON" => dmm = "open"

\* the part about init_device: no connection, no ON; and ON needs a transport
C11_ConnectFailureAtInitIsOff ==
    /\ (op = "init_device" /\ (got = <<>> \/ got[1] # IdnReply)) =>
          devState = "OFF"
    /\ devState = "ON" => dmm = "open"

\* no handler opens the resource again, and none changes the state
C11_NoReconnectStep ==
    op' \notin {"init_device", "delete_device"} =>
        /\ dmm' = dmm
        /\ devState' = devState

C11_NoReconnect == [][C11_NoReconnectStep]_vars

(* C12: every read of a statistics attribute, of last_value and of         *)
(* trigger_status sends exactly one query, the one of its attribute, and   *)
(* returns the value of the reply to that query (for trigger_status its    *)
(* first ';' field); it never returns an earlier result or the reading     *)
(* stored by read().                                                       *)
C12_Query ==
    CASE op = "read_stats_average" -> ":TRAC:STAT:AVER?"
      [] op = "read_stats_peak2peak" -> ":TRAC:STAT:PK2P?"
      [] op = "read_stats_std" -> ":TRAC:STAT:STDD?"
      [] op = "read_stats_span" -> ":TRAC:ACT?"
      [] op = "read_stats_min" -> ":TRAC:STAT:MIN?"
      [] op = "read_stats_max" -> ":TRAC:STAT:MAX?"
      [] op = "read_last_value" -> ":FETC?"
      [] op = "read_trigger_status" -> ":TRIG:STAT?"

C12_Ops ==
    {"read_stats_average", "read_stats_peak2peak", "read_stats_std",
     "read_stats_span", "read_stats_min", "read_stats_max",
     "read_last_value", "read_trigger_status"}

C12_ReadsQueryTheInstrument ==
    (op \in C12_Ops /\ raised # "AttributeError") =>
        /\ sent = << <<C12_Query>> >>
        /\ raised = "none" =>
              /\ Len(got) = 1
              /\ ret = IF op = "read_trigger_status"
                       THEN PyStr(got[1].text[1])
                       ELSE PyFloat(got[1].num)
        /\ raised # "none" => ret = None

\* read() has stored 2.5; the instrument answers :FETC? with -2.5, and that
\* is what read_last_value returns
C12_Witness ==
    /\ op = "read_last_value"
    /\ raised = "none"
    /\ last_value = <<2500000>>
    /\ sent = << <<":FETC?">> >>
    /\ got = <<NumReply([ok |-> TRUE, num |-> -2500000])>>
    /\ ret = PyFloat(-2500000)

(* C13: when the function-select write of write_measurement_type(mode)     *)
(* fails, the failure is raised to the caller and the cached prefix (and   *)
(* the current mode) stay as they were before the call; the prefix is      *)
(* recomputed, to the table value of mode, only when the write succeeded.  *)
C13_Step ==
    op' = "write_measurement_type" =>
        /\ raised' # "none" =>
              /\ sense_prefix' = sense_prefix
              /\ UNCHANGED <<curMode, instVars>>
              /\ ret' = None
        /\ raised' = "VisaIOError" => sent' = <<C5_Select(arg'.num)>>
        /\ raised' = "none" => sense_prefix' = TablePrefix(arg'.num)

C13_FailedWriteKeepsPrefix == [][C13_Step]_vars

\* a write of DigVolt failed at the transport; the session is still VoltAC
C13_Witness ==
    /\ op = "write_measurement_type"
    /\ raised = "VisaIOError"
    /\ arg = PyInt(DigVolt)
    /\ sent = << <<":SENS:DIG:FUNC \"", "VOLT", "\"">> >>
    /\ curMode = <<VoltAC>>
    /\ sense_prefix = "VOLT"
    /\ instFunc = "VOLT:AC"

(* C14: no operation retries.  Within one invocation every command is sent *)
(* at most once; a command that fails at the transport is the last one    *)
(* its operation sends (a trigger_external failing at its k-th write has   *)
(* sent exactly the first k of its seven writes), and the failure is       *)
(* raised to the caller.                                                   *)
C14_IsPrefix(s, t) == Len(s) <= Len(t) /\ s = SubSeq(t, 1, Len(s))

\* the attribute handlers and the commands
C14_HandlersStopAtFailure ==
    /\ \A i, j \in 1..Len(sent) : i # j => sent[i] # sent[j]
    /\ op = "trigger_external" =>
          /\ C14_IsPrefix(sent, C3_Program)
          /\ raised = "none" => Len(sent) = 7
          /\ raised = "VisaIOError" => Len(sent) \in 1..7
    /\ op = "read_measurement_type" =>
          C14_IsPrefix(sent, << <<"SENS:FUNC?">>, <<"SENS:DIG:FUNC?">> >>)
    /\ op \notin {"init_device", "trigger_external", "read_measurement_type"} =>
          Len(sent) <= 1
    /\ (op # "init_device" /\ raised = "VisaIOError") =>
          /\ sent # <<>>
          /\ ret = None
          /\ Len(got) < Len(sent)
    /\ (op # "init_device" /\ raised = "none") =>
          Len(got) \in {0, Len(sent)}

\* the same with init_device: an *IDN? that brought no reply is the last
\* command init_device sends, and init_device raises
C14_NoRetryStopAtFailure ==
    /\ C14_HandlersStopAtFailure
    /\ (op = "init_device" /\ sent # <<>> /\ (got = <<>> \/ got[1] # IdnReply)) =>
          /\ sent = <<CmdIdn>>
          /\ raised # "none"

\* trigger_external failed at its third write
C14_WitnessThirdWrite ==
    /\ op = "trigger_external"
    /\ raised = "VisaIOError"
    /\ sent = << <<":TRIG:LOAD \"EMPTY\"">>,
                 <<":TRIG:BLOC:BUFF:CLEAR ", "1">>,
                 <<":TRIGger:BLOCk:WAIT ", "2", ", EXT, ENT">> >>

(* C15: in every reachable state, the ones after an init_device whose mode *)
(* query failed included, every range or auto-range command sent has the   *)
(* prefix VOLT or CURR: none is sent with an empty prefix or with DIG.     *)
C15_RangePrefixIsVoltOrCurr ==
    (op \in RangeOps /\ sent # <<>>) =>
        /\ Len(sent) = 1
        /\ sent[1][1] = "SENS:"
        /\ sent[1][2] \in {"VOLT", "CURR"}

\* the half that holds: no range command is sent with the prefix DIG
C15_NoDigCommand ==
    (op \in RangeOps /\ sent # <<>>) =>
        /\ Len(sent) = 1
        /\ sent[1][1] = "SENS:"
        /\ sent[1][2] # "DIG"

(* C16: against an instrument that applies each function-select command,   *)
(* a read_measurement_type that follows a successful                       *)
(* write_measurement_type(m) returns m, for each of the six modes and from *)
(* any prior mode, whether the instrument quotes its replies or not.       *)
C16_WriteThenReadReturnsMode ==
    (written /\ op = "read_measurement_type" /\ raised = "none") =>
        /\ curMode # <<>>
        /\ curMode[1] \in Modes
        /\ ret = PyInt(curMode[1])

\* DigCurr was written and is read back, from replies in quotes
C16_Witness ==
    /\ written
    /\ op = "read_measurement_type"
    /\ raised = "none"
    /\ curMode = <<DigCurr>>
    /\ got = <<TextReply(<<"\"", "NONE", "\"">>),
               TextReply(<<"\"", "CURR", "\"">>)>>
    /\ ret = PyInt(DigCurr)

=============================================================================
